---- MODULE Spec2Model ----
(***************************************************************************)
(* Flight-log tools: add_flight.py (interactive append to flights.csv and  *)
(* coordinate insertion into commercial.html.tera) and                     *)
(* migrate_csv_to_json.py (one-time CSV to JSON conversion).               *)
(*                                                                         *)
(* A Python str is a sequence of one-character strings, so that strip(),   *)
(* upper(), slicing and the regular expressions are computed, not assumed. *)
(* Coordinates are integers in units of 1e-5 degree.                       *)
(***************************************************************************)
EXTENDS Integers, Sequences, FiniteSets, TLC

VARIABLES
    csv,             \* flights.csv on disk: [lines, open]; open = last line has no line terminator
    template,        \* commercial.html.tera on disk, as a sequence of tokens
    csv0,            \* flights.csv as it was before the run
    template0,       \* commercial.html.tera as it was before the run
    pc,              \* position in main()
    rows,            \* main: rows = load_rows()
    airports,        \* build_lookups: airports dict
    airlines,        \* build_lookups: airlines dict
    aircraft,        \* build_lookups: aircraft dict
    scan,            \* build_lookups: index of the next row of the for loop
    template_coords, \* main: template_coords dict
    answers,         \* main: the values returned by the prompt() calls so far
    pstate,          \* prompt: "await" (line 91) or "unknown" (line 110)
    val,             \* prompt: val, while waiting at line 110
    line,            \* the last line input() returned
    nblank,          \* prompt: blank lines read by the running prompt() call
    nread,           \* prompt: non-blank reads of the latest prompt() call (line 91, then line 110)
    reg,             \* main: reg
    header,          \* migrate main: header (<<>> stands for None), wrapped in a sequence
    data_rows,       \* migrate main: data_rows
    flights,         \* migrate main: flights
    iata_codes,      \* migrate main: iata_codes
    airports_json    \* migrate main: the airports dict dumped to airports.json

vars == <<csv, template, csv0, template0, pc, rows, airports, airlines, aircraft,
          scan, template_coords, answers, pstate, val, line, nblank, nread, reg,
          header, data_rows, flights, iata_codes, airports_json>>

\* Bounds of the model.
MaxBlank == 1
MaxRows == 4

-----------------------------------------------------------------------------
(* Characters and str methods *)

UpperLetters == <<"A","B","C","D","E","F","G","H","I","J","K","L","M",
                  "N","O","P","Q","R","S","T","U","V","W","X","Y","Z">>
LowerLetters == <<"a","b","c","d","e","f","g","h","i","j","k","l","m",
                  "n","o","p","q","r","s","t","u","v","w","x","y","z">>
DigitChars == <<"0","1","2","3","4","5","6","7","8","9">>

IsUpper(c) == \E i \in 1..26 : UpperLetters[i] = c
IsLower(c) == \E i \in 1..26 : LowerLetters[i] = c
IsDigit(c) == \E i \in 1..10 : DigitChars[i] = c
IsUpperOrDigit(c) == IsUpper(c) \/ IsDigit(c)
IsSpace(c) == c \in {" ", "\t"}

UpperChar(c) ==
    IF IsLower(c) THEN UpperLetters[CHOOSE i \in 1..26 : LowerLetters[i] = c] ELSE c

LowerChar(c) ==
    IF IsUpper(c) THEN LowerLetters[CHOOSE i \in 1..26 : UpperLetters[i] = c] ELSE c

str_upper_id(s) == s

str_upper(s) == [i \in 1..Len(s) |-> UpperChar(s[i])]

str_lower(s) == [i \in 1..Len(s) |-> LowerChar(s[i])]

str_strip(s) ==
    LET keep == {i \in 1..Len(s) : ~IsSpace(s[i])}
    IN  IF keep = {} THEN <<>>
        ELSE LET a == CHOOSE i \in keep : \A j \in keep : i <= j
                 b == CHOOSE i \in keep : \A j \in keep : j <= i
             IN  SubSeq(s, a, b)

HasParen_never(s) == FALSE

\* "(" in s
HasParen(s) == \E i \in 1..Len(s) : s[i] = "("

\* s.find(sub): the first 0-based index of sub in s, or -1
str_find(s, sub) ==
    LET hits == {i \in 1..(Len(s) - Len(sub) + 1) : SubSeq(s, i, i + Len(sub) - 1) = sub}
    IN  IF hits = {} THEN -1 ELSE (CHOOSE i \in hits : \A j \in hits : i <= j) - 1

\* the least element of a non-empty set of integers
Least(S) == CHOOSE i \in S : \A j \in S : i <= j

-----------------------------------------------------------------------------
(* Regular expressions. Each Find operator is re.search: the 1-based index *)
(* of the leftmost match, or 0 when there is none.                         *)

AllUpper(s, a, b) == \A k \in a..b : IsUpper(s[k])

\* \(([A-Z]{3})/[A-Z]{4}\)
AirportAt(s, i) ==
    /\ i + 9 <= Len(s)
    /\ s[i] = "("
    /\ AllUpper(s, i + 1, i + 3)
    /\ s[i + 4] = "/"
    /\ AllUpper(s, i + 5, i + 8)
    /\ s[i + 9] = ")"

FindAirport(s) ==
    LET hits == {i \in 1..Len(s) : AirportAt(s, i)}
    IN  IF hits = {} THEN 0 ELSE Least(hits)

\* \(([A-Z0-9]{2})/[A-Z]{3}\)
AirlineAt(s, i) ==
    /\ i + 7 <= Len(s)
    /\ s[i] = "("
    /\ \A k \in (i + 1)..(i + 2) : IsUpperOrDigit(s[k])
    /\ s[i + 3] = "/"
    /\ AllUpper(s, i + 4, i + 6)
    /\ s[i + 7] = ")"

FindAirline(s) ==
    LET hits == {i \in 1..Len(s) : AirlineAt(s, i)}
    IN  IF hits = {} THEN 0 ELSE Least(hits)

\* \(([A-Z0-9]+)\)$  (the subject has been stripped, so $ is the end of the string)
AircraftAt(s, i) ==
    /\ i + 2 <= Len(s)
    /\ s[i] = "("
    /\ \A k \in (i + 1)..(Len(s) - 1) : IsUpperOrDigit(s[k])
    /\ s[Len(s)] = ")"

FindAircraft(s) ==
    LET hits == {i \in 1..Len(s) : AircraftAt(s, i)}
    IN  IF hits = {} THEN 0 ELSE Least(hits)

\* \(([A-Z]{3})/
IataPrefixAt(s, i) ==
    /\ i + 4 <= Len(s)
    /\ s[i] = "("
    /\ AllUpper(s, i + 1, i + 3)
    /\ s[i + 4] = "/"

FindIataPrefix(s) ==
    LET hits == {i \in 1..Len(s) : IataPrefixAt(s, i)}
    IN  IF hits = {} THEN 0 ELSE Least(hits)

\* m.group(1) of the three code patterns; <<>> when there is no match
AirportCode(s) ==
    LET i == FindAirport(s) IN IF i = 0 THEN <<>> ELSE SubSeq(s, i + 1, i + 3)

AirlineCode(s) ==
    LET i == FindAirline(s) IN IF i = 0 THEN <<>> ELSE SubSeq(s, i + 1, i + 2)

AircraftCode(s) ==
    LET t == str_strip(s)
        i == FindAircraft(t)
    IN  IF i = 0 THEN <<>> ELSE SubSeq(t, i + 1, Len(t) - 1)

-----------------------------------------------------------------------------
(* dict *)

EmptyDict == <<>>

DictPutIfAbsent(d, k, v) ==
    [x \in (DOMAIN d) \cup {k} |-> IF x \in DOMAIN d THEN d[x] ELSE v]

\* d[k] = v
DictPut(d, k, v) ==
    [x \in (DOMAIN d) \cup {k} |-> IF x = k THEN v ELSE d[x]]

-----------------------------------------------------------------------------
(* build_lookups *)

MinFields == 10

\* lines 46-49, for one field
ScanAirportField(d, field) ==
    IF FindAirport(field) # 0 THEN DictPut(d, AirportCode(field), field) ELSE d

\* the body of the for loop over rows, lines 44-55
ScanRow(t, row) ==
    IF Len(row) < MinFields THEN t
    ELSE [airports |-> ScanAirportField(ScanAirportField(t.airports, row[3]), row[4]),
          airlines |-> IF FindAirline(row[8]) # 0
                       THEN DictPut(t.airlines, AirlineCode(row[8]), row[8])
                       ELSE t.airlines,
          aircraft |-> IF FindAircraft(str_strip(row[9])) # 0
                       THEN DictPut(t.aircraft, AircraftCode(row[9]), row[9])
                       ELSE t.aircraft]

EmptyTables == [airports |-> EmptyDict, airlines |-> EmptyDict, aircraft |-> EmptyDict]

RECURSIVE ScanRows(_, _, _)
ScanRows(t, rs, i) ==
    IF i > Len(rs) THEN t ELSE ScanRows(ScanRow(t, rs[i]), rs, i + 1)

build_lookups(rs) == ScanRows(EmptyTables, rs, 1)

-----------------------------------------------------------------------------
(* String literals used by the inputs *)

S_date == <<"2","0","2","4","-","0","1","-","0","1">>   \* '2024-01-01'
S_flight == <<"U","A","1","7","7","7">>   \* 'UA1777'
S_time == <<"1","6",":","5","0",":","0","0">>   \* '16:50:00'
S_reg == <<"N","1","2","3","4","5">>   \* 'N12345'
JFK == <<"J","F","K">>   \* 'JFK'
SFO == <<"S","F","O">>   \* 'SFO'
ZZZ == <<"Z","Z","Z">>   \* 'ZZZ'
LAX == <<"L","A","X">>   \* 'LAX'
ORD == <<"O","R","D">>   \* 'ORD'
UA == <<"U","A">>   \* 'UA'
B738 == <<"B","7","3","8">>   \* 'B738'
D_JFK == <<"N","Y"," ","/"," ","J","F","K"," ","(","J","F","K","/","K","J","F","K",")">>   \* 'NY / JFK (JFK/KJFK)'
D_JFK2 == <<"K","e","n","n","e","d","y"," ","(","J","F","K","/","K","J","F","K",")">>   \* 'Kennedy (JFK/KJFK)'
D_SFO == <<"S","F"," ","(","S","F","O","/","K","S","F","O",")">>   \* 'SF (SFO/KSFO)'
D_ZZZ == <<"X"," ","(","Z","Z","Z","/","K","Z","Z","Z",")">>   \* 'X (ZZZ/KZZZ)'
D_UA == <<"U","n","i","t","e","d"," ","(","U","A","/","U","A","L",")">>   \* 'United (UA/UAL)'
D_DL == <<"D","e","l","t","a"," ","(","D","L","/","D","A","L",")">>   \* 'Delta (DL/DAL)'
D_B738 == <<"B","o","e","i","n","g"," ","(","B","7","3","8",")">>   \* 'Boeing (B738)'
D_B738sp == <<"B","o","e","i","n","g"," ","7","3","7"," ","(","B","7","3","8",")"," ">>   \* 'Boeing 737 (B738) '
D_A320 == <<"A","i","r","b","u","s"," ","(","A","3","2","0",")">>   \* 'Airbus (A320)'
D_plain == <<"S","o","m","e","w","h","e","r","e">>   \* 'Somewhere'

-----------------------------------------------------------------------------
(* flights.csv *)

\* csv.reader over the file: one row per line
load_rows(file) == file.lines

\* open(CSV_PATH, "a") and writer.writerow(row): the row's text and a line
\* terminator are written at the end of the file, so they continue a last
\* line that has no terminator
csv_append(file, row) ==
    IF file.open
    THEN LET n == Len(file.lines)
             last == file.lines[n]
             joined == SubSeq(last, 1, Len(last) - 1)
                       \o <<last[Len(last)] \o row[1]>> \o Tail(row)
         IN  [lines |-> SubSeq(file.lines, 1, n - 1) \o <<joined>>, open |-> FALSE]
    ELSE [lines |-> Append(file.lines, row), open |-> FALSE]

\* new_row of main, lines 165-171
new_row(a, r) ==
    <<a[1], a[2], a[3], a[4], a[5], a[6], a[7], a[8], a[9], r,
      <<>>, <<>>, <<>>, <<>>, <<>>, <<>>, <<>>, <<>>, <<>>>>

-----------------------------------------------------------------------------
(* commercial.html.tera: a sequence of tokens.                             *)
(*   entry  "XXX": [lat, lng]                                              *)
(*   sep    a comma, then white space                                      *)
(*   nl     white space that holds a newline                               *)
(*   close  };                                                             *)
(*   text   any other text                                                 *)

Tok(t) == [t |-> t, code |-> <<>>, lat |-> 0, lng |-> 0]
Entry(code, lat, lng) == [t |-> "entry", code |-> code, lat |-> lat, lng |-> lng]

\* get_template_coords: every entry of the file, a later one replacing an earlier one
RECURSIVE ParseCoords(_, _, _)
ParseCoords(d, tpl, i) ==
    IF i > Len(tpl) THEN d
    ELSE ParseCoords(IF tpl[i].t = "entry"
                     THEN DictPut(d, tpl[i].code, <<tpl[i].lat, tpl[i].lng>>)
                     ELSE d, tpl, i + 1)

get_template_coords(tpl) == ParseCoords(EmptyDict, tpl, 1)

Round4_id(x) == x

\* format(x, ".4f"), then read back: x to the nearest 1e-4 degree
Round4(x) == ((x + 5) \div 10) * 10

\* the pattern of line 76 matches at token i
AnchorAt(tpl, i) ==
    /\ i + 2 <= Len(tpl)
    /\ tpl[i].t = "entry"
    /\ tpl[i + 1].t = "nl"
    /\ tpl[i + 2].t = "close"

add_coord_to_template(tpl, iata, lat, lng) ==
    LET hits == {i \in 1..Len(tpl) : AnchorAt(tpl, i)}
    IN  IF hits = {} THEN [ok |-> FALSE, template |-> tpl]
        ELSE LET i == Least(hits)
             IN  [ok |-> TRUE,
                  template |-> SubSeq(tpl, 1, i)
                               \o <<Tok("sep"), Entry(iata, Round4(lat), Round4(lng)),
                                    Tok("nl"), Tok("close")>>
                               \o SubSeq(tpl, i + 3, Len(tpl))]

-----------------------------------------------------------------------------
(* float(text), for decimal literals: sign, digits, at most one point.     *)

DigitVal(c) == (CHOOSE i \in 1..10 : DigitChars[i] = c) - 1

RECURSIVE ToNat(_)
ToNat(s) == IF s = <<>> THEN 0 ELSE 10 * ToNat(SubSeq(s, 1, Len(s) - 1)) + DigitVal(s[Len(s)])

Unsigned(s) == IF s # <<>> /\ s[1] \in {"+", "-"} THEN Tail(s) ELSE s

IsFloat(s) ==
    LET u == Unsigned(s)
    IN  /\ \A i \in 1..Len(u) : IsDigit(u[i]) \/ u[i] = "."
        /\ Cardinality({i \in 1..Len(u) : u[i] = "."}) <= 1
        /\ \E i \in 1..Len(u) : IsDigit(u[i])

\* the value in units of 1e-5 (the literals read have at most 5 decimals)
ParseFloat(s) ==
    LET u == Unsigned(s)
        dots == {i \in 1..Len(u) : u[i] = "."}
        p == IF dots = {} THEN Len(u) + 1 ELSE Least(dots)
        whole == SubSeq(u, 1, p - 1)
        frac == SubSeq(u, p + 1, Len(u))
        frac5 == [i \in 1..5 |-> IF i <= Len(frac) THEN frac[i] ELSE "0"]
        mag == ToNat(whole) * 100000 + ToNat(frac5)
    IN  IF s[1] = "-" THEN 0 - mag ELSE mag

-----------------------------------------------------------------------------
(* ensure_airport_coords *)

\* airportsdata.load("IATA"): lat, lon of the airports it knows
AIRPORTS_DB ==
    (JFK :> <<4063993, -7377869>>) @@ (SFO :> <<3761899, -12237501>>)

AlreadyKnown_never(iata, coords) == FALSE

\* line 121: iata in template_coords
AlreadyKnown(iata, coords) == iata \in DOMAIN coords

\* latLine, lngLine: what input() returns at lines 137 and 138, read only when
\* asked is TRUE; raised: float() raised ValueError at line 140
ensure_airport_coords(apt_str, tpl, coords, latLine, lngLine) ==
    LET i == FindIataPrefix(apt_str)
        iata == SubSeq(apt_str, i + 1, i + 3)
        same == [raised |-> FALSE, asked |-> FALSE, template |-> tpl, coords |-> coords]
    IN  IF i = 0 THEN same
        ELSE IF AlreadyKnown(iata, coords) THEN same
        ELSE IF iata \in DOMAIN AIRPORTS_DB
        THEN LET lat == AIRPORTS_DB[iata][1]
                 lng == AIRPORTS_DB[iata][2]
                 r == add_coord_to_template(tpl, iata, lat, lng)
             IN  IF r.ok
                 THEN [raised |-> FALSE, asked |-> FALSE, template |-> r.template,
                       coords |-> DictPut(coords, iata, <<lat, lng>>)]
                 ELSE same
        ELSE LET lat == str_strip(latLine)
                 lng == str_strip(lngLine)
                 asked == [same EXCEPT !.asked = TRUE]
             IN  IF lat # <<>> /\ lng # <<>>
                 THEN IF ~IsFloat(lat) \/ ~IsFloat(lng)
                      THEN [asked EXCEPT !.raised = TRUE]
                      ELSE LET r == add_coord_to_template(tpl, iata, ParseFloat(lat),
                                                          ParseFloat(lng))
                           IN  IF r.ok
                               THEN [raised |-> FALSE, asked |-> TRUE,
                                     template |-> r.template,
                                     coords |-> DictPut(coords, iata,
                                                <<ParseFloat(lat), ParseFloat(lng)>>)]
                               ELSE asked
                 ELSE asked

-----------------------------------------------------------------------------
(* prompt *)

KeepOrFull_full(full, v) == full

\* line 111: full if full else val
KeepOrFull(full, v) == IF full # <<>> THEN full ELSE v

\* One input() of prompt(label, lookup): ln is the line read, st where it is read
\* (line 91 or line 110), v the val kept for line 111; has = (lookup is not None).
\* done: prompt returns result.
prompt_read(has, lookup, st, v, ln) ==
    LET s == str_strip(ln)
    IN  IF st = "await"
        THEN IF s = <<>>
             THEN [done |-> FALSE, result |-> <<>>, pstate |-> "await", val |-> <<>>]
             ELSE IF ~has
             THEN [done |-> TRUE, result |-> s, pstate |-> "await", val |-> <<>>]
             ELSE IF str_upper(s) \in DOMAIN lookup
             THEN [done |-> TRUE, result |-> lookup[str_upper(s)],
                   pstate |-> "await", val |-> <<>>]
             ELSE IF HasParen(s)
             THEN [done |-> TRUE, result |-> s, pstate |-> "await", val |-> <<>>]
             ELSE [done |-> FALSE, result |-> <<>>, pstate |-> "unknown", val |-> s]
        ELSE [done |-> TRUE, result |-> KeepOrFull(s, v),
              pstate |-> "await", val |-> <<>>]

\* lines 176-177: the answer declines
Declined_only_n(ln) == str_lower(str_strip(ln)) = <<"n">>

Declined(ln) ==
    LET confirm == str_lower(str_strip(ln))
    IN  confirm # <<>> /\ confirm # <<"y">>

-----------------------------------------------------------------------------
(* Inputs: rows of flights.csv, contents of the two files, lines typed *)

R_hdr ==
    <<<<"D","a","t","e">>,
      <<"F","l","i","g","h","t">>,
      <<"F","r","o","m">>,
      <<"T","o">>,
      <<"D","e","p">>,
      <<"A","r","r">>,
      <<"D","u","r">>,
      <<"A","i","r","l","i","n","e">>,
      <<"A","i","r","c","r","a","f","t">>,
      <<"R","e","g">>,
      <<"S","e","a","t">>,
      <<"T","y","p","e">>,
      <<"C","l","a","s","s">>,
      <<"R","e","a","s","o","n">>,
      <<"N","o","t","e">>,
      <<"D","e","p","I","d">>,
      <<"A","r","r","I","d">>,
      <<"A","l","I","d">>,
      <<"A","c","I","d">>>>

L_jfk == <<"j","f","k">>   \* 'jfk'
L_sfo == <<" ","S","f","o"," ">>   \* ' Sfo '
L_djfk == <<" "," ","N","Y"," ","/"," ","J","F","K"," ","(","J","F","K","/","K","J","F","K",")"," ">>   \* '  NY / JFK (JFK/KJFK) '
L_ua == <<"u","a">>   \* 'ua'
L_b738 == <<"b","7","3","8">>   \* 'b738'
L_y == <<"y">>   \* 'y'
L_Y == <<" ","Y"," ">>   \* ' Y '
L_n == <<"n">>   \* 'n'
L_N == <<" ","N"," ">>   \* ' N '
L_no == <<"n","o">>   \* 'no'
L_abc == <<"a","b","c">>   \* 'abc'
L_lat == <<"1","2",".","5">>   \* '12.5'
L_lng == <<"-","7",".","2","5">>   \* '-7.25'
D_two == <<"A"," ","(","J","F","K","/","K","J","F","K",")"," ","(","S","F","O","/","K","S","F","O",")">>   \* 'A (JFK/KJFK) (SFO/KSFO)'

Blanks9 == <<<<>>, <<>>, <<>>, <<>>, <<>>, <<>>, <<>>, <<>>, <<>>>>

MkRow(from, to, airline, ac) ==
    <<S_date, S_flight, from, to, S_time, S_time, S_time, airline, ac, S_reg>> \o Blanks9

R1 == MkRow(D_JFK, D_SFO, D_UA, D_B738)
R2 == MkRow(D_JFK2, D_plain, D_plain, D_B738sp)
R_two == MkRow(D_two, D_SFO, D_DL, D_plain)
R_ten == <<S_date, S_flight, D_SFO, D_JFK, S_time, S_time, S_time, D_DL, D_A320, S_reg>>
R_short == <<S_date, S_flight, D_SFO, D_JFK2>>
R_blank == <<>>
R_ws == <<<<" ">>, <<>>, <<" ", " ">>>>

CsvPool ==
    { [lines |-> <<>>, open |-> FALSE],
      [lines |-> <<R_hdr>>, open |-> FALSE],
      [lines |-> <<R_hdr, R1>>, open |-> FALSE],
      [lines |-> <<R_hdr, R1>>, open |-> TRUE] }

T_two == <<Tok("text"), Entry(LAX, 3394250, -11840810), Tok("sep"),
           Entry(ORD, 4197860, -8790480), Tok("nl"), Tok("close"), Tok("text")>>
T_empty == <<Tok("text"), Tok("nl"), Tok("close"), Tok("text")>>
T_trailing == <<Tok("text"), Entry(LAX, 3394250, -11840810), Tok("sep"),
                Tok("close"), Tok("text")>>
T_jfk == <<Tok("text"), Entry(JFK, 4064000, -7378000), Tok("nl"), Tok("close"),
           Tok("text")>>

TemplatePool == {T_two, T_empty, T_trailing, T_jfk}

BlankLines == {<<>>, <<" ">>}

\* the prompt() calls of main, lines 154-162, in order; fields 3, 4, 8 and 9
\* pass a lookup
HasLookup(field) == field \in {3, 4, 8, 9}

LookupOf(field) ==
    IF field \in {3, 4} THEN airports
    ELSE IF field = 8 THEN airlines
    ELSE IF field = 9 THEN aircraft
    ELSE EmptyDict

\* non-blank lines typed at line 91
FirstLines(field) ==
    IF field = 1 THEN {S_date}
    ELSE IF field = 2 THEN {S_flight}
    ELSE IF field \in {3, 4} THEN {L_jfk, L_sfo, D_SFO, L_djfk, D_ZZZ}
    ELSE IF field = 8 THEN {L_ua, D_DL}
    ELSE IF field = 9 THEN {L_b738, D_A320}
    ELSE {S_time}

\* lines typed at line 110
FullLines(field) ==
    IF field \in {3, 4} THEN {<<>>, D_JFK}
    ELSE IF field = 8 THEN {<<>>, D_UA}
    ELSE {<<>>, D_B738}

RegLines == {<<>>, S_reg}
ConfirmLines == {<<>>, L_y, L_Y, L_n, L_N, L_no}
LatLines == {<<>>, L_abc, L_lat}
LngLines == {<<>>, L_lng}

-----------------------------------------------------------------------------
(* add_flight.py: main *)

NoMigrate ==
    /\ header = <<>>
    /\ data_rows = <<>>
    /\ flights = <<>>
    /\ iata_codes = {}
    /\ airports_json = EmptyDict

NoPrompt ==
    /\ answers = <<>>
    /\ pstate = "await"
    /\ val = <<>>
    /\ line = <<>>
    /\ nblank = 0
    /\ nread = 0
    /\ reg = <<>>

Init ==
    /\ csv \in CsvPool
    /\ template \in TemplatePool
    /\ csv0 = csv
    /\ template0 = template
    /\ pc = "load"
    /\ rows = <<>>
    /\ airports = EmptyDict
    /\ airlines = EmptyDict
    /\ aircraft = EmptyDict
    /\ scan = 0
    /\ template_coords = EmptyDict
    /\ NoPrompt
    /\ NoMigrate

\* lines 146-148
Load ==
    /\ pc = "load"
    /\ rows' = load_rows(csv)
    /\ LET t == build_lookups(load_rows(csv))
       IN  /\ airports' = t.airports
           /\ airlines' = t.airlines
           /\ aircraft' = t.aircraft
    /\ scan' = Len(load_rows(csv)) + 1
    /\ template_coords' = get_template_coords(template)
    /\ pc' = "prompt"
    /\ UNCHANGED <<csv, template, csv0, template0, answers, pstate, val, line, nblank,
                   nread, reg, header, data_rows, flights, iata_codes, airports_json>>

\* one input() inside the prompt() call for field Len(answers) + 1
PromptLine(ln) ==
    LET field == Len(answers) + 1
        r == prompt_read(HasLookup(field), LookupOf(field), pstate, val, ln)
    IN  /\ line' = ln
        /\ pstate' = r.pstate
        /\ val' = r.val
        /\ nread' = IF pstate = "unknown" THEN nread + 1
                    ELSE IF ~r.done /\ r.pstate = "await" THEN 0 ELSE 1
        /\ IF r.done
           THEN /\ answers' = Append(answers, r.result)
                /\ nblank' = 0
                /\ pc' = IF field = 9 THEN "reg" ELSE "prompt"
           ELSE /\ answers' = answers
                /\ nblank' = IF r.pstate = "await" THEN nblank + 1 ELSE nblank
                /\ pc' = pc
        /\ UNCHANGED <<csv, template, csv0, template0, rows, airports, airlines,
                       aircraft, scan, template_coords, reg, header, data_rows,
                       flights, iata_codes, airports_json>>

\* line 91 returns a blank line: the while loop goes round again
PromptBlank ==
    /\ pc = "prompt"
    /\ pstate = "await"
    /\ nblank < MaxBlank
    /\ \E ln \in BlankLines : PromptLine(ln)

\* line 91 returns a non-blank line
PromptFirst ==
    /\ pc = "prompt"
    /\ pstate = "await"
    /\ \E ln \in FirstLines(Len(answers) + 1) : PromptLine(ln)

\* line 110 returns
PromptFull ==
    /\ pc = "prompt"
    /\ pstate = "unknown"
    /\ \E ln \in FullLines(Len(answers) + 1) : PromptLine(ln)

\* line 163
ReadReg ==
    /\ pc = "reg"
    /\ \E ln \in RegLines :
          /\ line' = ln
          /\ reg' = str_strip(ln)
    /\ pc' = "confirm"
    /\ UNCHANGED <<csv, template, csv0, template0, rows, airports, airlines, aircraft,
                   scan, template_coords, answers, pstate, val, nblank, nread,
                   header, data_rows, flights, iata_codes, airports_json>>

\* lines 176-179
Confirm ==
    /\ pc = "confirm"
    /\ \E ln \in ConfirmLines :
          /\ line' = ln
          /\ pc' = IF Declined(ln) THEN "cancelled" ELSE "append"
    /\ UNCHANGED <<csv, template, csv0, template0, rows, airports, airlines, aircraft,
                   scan, template_coords, answers, pstate, val, nblank, nread, reg,
                   header, data_rows, flights, iata_codes, airports_json>>

\* lines 181-183
AppendRow ==
    /\ pc = "append"
    /\ csv' = csv_append(csv, new_row(answers, reg))
    /\ pc' = "ensure_from"
    /\ UNCHANGED <<template, csv0, template0, rows, airports, airlines, aircraft,
                   scan, template_coords, answers, pstate, val, line, nblank, nread,
                   reg, header, data_rows, flights, iata_codes, airports_json>>

\* one call of ensure_airport_coords; next is where main goes when it returns
Ensure(apt_str, next) ==
    /\ \E latLine \in LatLines, lngLine \in LngLines :
          LET r == ensure_airport_coords(apt_str, template, template_coords,
                                         latLine, lngLine)
          IN  /\ template' = r.template
              /\ template_coords' = r.coords
              /\ line' = IF r.asked THEN lngLine ELSE line
              /\ pc' = IF r.raised THEN "ValueError" ELSE next
    /\ UNCHANGED <<csv, csv0, template0, rows, airports, airlines, aircraft, scan,
                   answers, pstate, val, nblank, nread, reg, header, data_rows,
                   flights, iata_codes, airports_json>>

\* line 188
EnsureFrom ==
    /\ pc = "ensure_from"
    /\ Ensure(answers[3], "ensure_to")

\* line 189
EnsureTo ==
    /\ pc = "ensure_to"
    /\ Ensure(answers[4], "done")

Next ==
    \/ Load
    \/ PromptBlank
    \/ PromptFirst
    \/ PromptFull
    \/ ReadReg
    \/ Confirm
    \/ AppendRow
    \/ EnsureFrom
    \/ EnsureTo

Spec == Init /\ [][Next]_vars

-----------------------------------------------------------------------------
(* Properties of add_flight.py *)

Last(q) == q[Len(q)]

\* main has written the new row (line 183 is behind it)
Appended == pc \in {"ensure_from", "ensure_to", "done", "ValueError"}

\* the confirmation prompt has been answered
PastConfirm == pc \in {"cancelled", "append", "ensure_from", "ensure_to", "done", "ValueError"}

\* the latest prompt() call has just returned, and line is the last line it read
JustReturned == pc \in {"prompt", "reg"} /\ pstate = "await" /\ nread >= 1 /\ answers # <<>>

coords0 == get_template_coords(template0)

\* C1: a confirmed run's append makes the log one record longer and leaves every
\* record that was in the log at its position with its fields unchanged.
C1_AppendAddsOneRecord ==
    Appended =>
        /\ Len(load_rows(csv)) = Len(load_rows(csv0)) + 1
        /\ SubSeq(load_rows(csv), 1, Len(load_rows(csv0))) = load_rows(csv0)

\* answers to the [Y/n] prompt other than empty and y, whatever the case and padding
DeclineAnswers == {L_n, L_N, L_no}

\* C2: when the user declines at the [Y/n] prompt the run ends (cancelled) and
\* neither flights.csv nor the template has been written: both are as before the run.
C2_DeclineWritesNothing ==
    /\ (PastConfirm /\ line \in DeclineAnswers) => pc = "cancelled"
    /\ pc = "cancelled" => (csv = csv0 /\ template = template0)

C2_Witness == pc = "cancelled" /\ line = L_N /\ csv0.lines # <<>>

\* the run of C3: empty log, UA1777 on 2024-01-01, JFK and SFO not in the coordinate
\* table (both are in AIRPORTS_DB), the run confirmed and finished
C3_Run ==
    /\ pc = "done"
    /\ load_rows(csv0) = <<>>
    /\ JFK \notin DOMAIN coords0
    /\ SFO \notin DOMAIN coords0
    /\ answers[1] = S_date
    /\ answers[2] = S_flight

\* the airport was given as the bare code or as a display string that embeds it
Denotes(apt, code, display) == apt \in {code, display} \/ AirportCode(apt) = code

\* the log holds one record, from JFK to SFO, and the template holds entries for
\* JFK and SFO that are the database's coordinates to 4 decimal places
C3_Outcome ==
    /\ Len(load_rows(csv)) = 1
    /\ AirportCode(load_rows(csv)[1][3]) = JFK
    /\ AirportCode(load_rows(csv)[1][4]) = SFO
    /\ \A code \in {JFK, SFO} :
          /\ code \in DOMAIN get_template_coords(template)
          /\ \A k \in 1..2 :
                LET stored == get_template_coords(template)[code][k]
                    exact == AIRPORTS_DB[code][k]
                IN  /\ stored % 10 = 0
                    /\ stored - exact \in -5..5

HasAnchor(tpl) ==
    \E i \in 1..(Len(tpl) - 2) :
        tpl[i].t = "entry" /\ tpl[i + 1].t = "nl" /\ tpl[i + 2].t = "close"

C4_NeverOverwrites ==
    pc \notin {"load"} =>
        /\ \A code \in DOMAIN coords0 :
              /\ code \in DOMAIN template_coords
              /\ template_coords[code] = coords0[code]
              /\ code \in DOMAIN get_template_coords(template)
              /\ get_template_coords(template)[code] = coords0[code]
        /\ \A i \in 1..Len(template) :
              (template[i].t = "entry" /\ template[i].code \in DOMAIN coords0)
                  => <<template[i].lat, template[i].lng>> = coords0[template[i].code]

\* the origin is already in the table and is skipped, the destination is added
C4_Witness ==
    /\ pc = "done"
    /\ template0 = T_jfk
    /\ answers[3] = D_JFK
    /\ answers[4] = D_SFO
    /\ SFO \in DOMAIN template_coords

\* C5: for a code missing from the table and from the airport database the enricher
\* never raises, whatever is typed for latitude and longitude, and it inserts only
\* when both are given and parse as floating-point numbers.
C5_ManualEntryNeverRaises ==
    /\ pc # "ValueError"
    /\ (ZZZ \in DOMAIN template_coords /\ ZZZ \notin DOMAIN coords0)
           => IsFloat(str_strip(line))

\* lines typed in some letter case and padding, with the key they stand for
CodeLines ==
    { [line |-> L_jfk, key |-> JFK], [line |-> L_sfo, key |-> SFO],
      [line |-> L_ua, key |-> UA], [line |-> L_b738, key |-> B738] }

\* C6: prompt, given a lookup table and a line that, trimmed and upper-cased, is a
\* key of the table, returns the display string of that key, not the line typed, and
\* does not take the unknown-code branch.
C6_KeyHitReturnsDisplay ==
    \A p \in CodeLines :
        /\ (/\ JustReturned
            /\ nread = 1
            /\ HasLookup(Len(answers))
            /\ line = p.line
            /\ p.key \in DOMAIN LookupOf(Len(answers)))
               => /\ Last(answers) = LookupOf(Len(answers))[p.key]
                  /\ Last(answers) # line
                  /\ Last(answers) # p.key
        /\ (pc = "prompt" /\ pstate = "unknown" /\ line = p.line)
               => p.key \notin DOMAIN LookupOf(Len(answers) + 1)

C6_Witness ==
    /\ JustReturned
    /\ Len(answers) = 4
    /\ line = L_sfo
    /\ Last(answers) = D_SFO

\* lines that hold an opening parenthesis, with the same text without the padding
ParenLines ==
    { [line |-> D_SFO, trimmed |-> D_SFO], [line |-> L_djfk, trimmed |-> D_JFK],
      [line |-> D_ZZZ, trimmed |-> D_ZZZ], [line |-> D_DL, trimmed |-> D_DL],
      [line |-> D_A320, trimmed |-> D_A320] }

\* C7 (as claimed): prompt, given a line that holds an opening parenthesis, returns
\* that line unchanged without asking for more.
C7_ParenReturnedUnchanged_AsClaimed ==
    \A p \in ParenLines :
        /\ (JustReturned /\ nread = 1 /\ line = p.line) => Last(answers) = line
        /\ ~(pc = "prompt" /\ pstate = "unknown" /\ line = p.line)

\* C7 (amended): prompt, given a line that holds an opening parenthesis, returns that
\* line with its leading and trailing white space stripped and otherwise unchanged,
\* without asking for more; resolving the returned string again returns it again.
C7_ParenReturnedTrimmed ==
    \A p \in ParenLines :
        /\ (JustReturned /\ nread = 1 /\ line = p.line) =>
              /\ Last(answers) = p.trimmed
              /\ LET again == prompt_read(HasLookup(Len(answers)), LookupOf(Len(answers)),
                                          "await", <<>>, Last(answers))
                 IN  again.done /\ again.result = Last(answers)
        /\ ~(pc = "prompt" /\ pstate = "unknown" /\ line = p.line)

C7_Witness ==
    /\ JustReturned
    /\ nread = 1
    /\ Len(answers) = 3
    /\ line = L_djfk
    /\ Last(answers) = D_JFK

-----------------------------------------------------------------------------
(* build_lookups, row by row *)

LookupRowPool == {R_hdr, R1, R2, R_two, R_ten, R_short}

RowSeqs(pool) == UNION {[1..n -> pool] : n \in 0..MaxRows}

NoFiles ==
    /\ csv = [lines |-> rows, open |-> FALSE]
    /\ csv0 = csv
    /\ template = <<>>
    /\ template0 = <<>>
    /\ template_coords = EmptyDict

InitLookups ==
    /\ rows \in RowSeqs(LookupRowPool)
    /\ NoFiles
    /\ pc = "scan"
    /\ scan = 1
    /\ airports = EmptyDict
    /\ airlines = EmptyDict
    /\ aircraft = EmptyDict
    /\ NoPrompt
    /\ NoMigrate

\* one iteration of the for loop of line 43
LookupsScan ==
    /\ pc = "scan"
    /\ scan <= Len(rows)
    /\ LET t == ScanRow([airports |-> airports, airlines |-> airlines,
                         aircraft |-> aircraft], rows[scan])
       IN  /\ airports' = t.airports
           /\ airlines' = t.airlines
           /\ aircraft' = t.aircraft
    /\ scan' = scan + 1
    /\ UNCHANGED <<csv, template, csv0, template0, pc, rows, template_coords, answers,
                   pstate, val, line, nblank, nread, reg, header, data_rows, flights,
                   iata_codes, airports_json>>

\* line 56
LookupsReturn ==
    /\ pc = "scan"
    /\ scan > Len(rows)
    /\ pc' = "returned"
    /\ UNCHANGED <<csv, template, csv0, template0, rows, airports, airlines, aircraft,
                   scan, template_coords, answers, pstate, val, line, nblank, nread,
                   reg, header, data_rows, flights, iata_codes, airports_json>>

NextLookups == LookupsScan \/ LookupsReturn

SpecLookups == InitLookups /\ [][NextLookups]_vars

\* the fields scanned so far, as <<row, column>>, in scan order; only rows with at
\* least 10 fields are scanned
Scanned(cols) == {sl \in (1..(scan - 1)) \X cols : Len(rows[sl[1]]) >= 10}

Before(a, b) == a[1] < b[1] \/ (a[1] = b[1] /\ a[2] < b[2])

\* the code the rule of the table extracts from a field
CodeBy(kind, s) ==
    IF kind = "airport" THEN AirportCode(s)
    ELSE IF kind = "airline" THEN AirlineCode(s)
    ELSE AircraftCode(s)

\* table d holds, for exactly the codes that its rule extracts from the scanned
\* fields of columns cols, the field of the last of them in scan order
LastWins(d, cols, kind) ==
    /\ \A sl \in Scanned(cols) :
          CodeBy(kind, rows[sl[1]][sl[2]]) # <<>>
              => CodeBy(kind, rows[sl[1]][sl[2]]) \in DOMAIN d
    /\ \A k \in DOMAIN d :
          /\ CodeBy(kind, d[k]) = k
          /\ \E sl \in Scanned(cols) :
                /\ d[k] = rows[sl[1]][sl[2]]
                /\ \A later \in Scanned(cols) :
                      Before(sl, later) => CodeBy(kind, rows[later[1]][later[2]]) # k

\* C9: each table of build_lookups holds one display string per code, the field of
\* the last scanned row from which the rule extracts that code, so the rule applied
\* to the stored string gives the key; rows with fewer than 10 fields and fields
\* without a code add nothing.
C9_LookupsLastWins ==
    /\ LastWins(airports, {3, 4}, "airport")
    /\ LastWins(airlines, {8}, "airline")
    /\ LastWins(aircraft, {9}, "aircraft")

\* JFK was seen with two display strings, and in a short row that is skipped
C9_Witness ==
    /\ pc = "returned"
    /\ rows = <<R1, R_short, R2>>
    /\ airports[JFK] = D_JFK2
    /\ aircraft[B738] = D_B738sp

-----------------------------------------------------------------------------
(* migrate_csv_to_json.py *)

extract_iata(s) == AirportCode(s)

extract_city(s) ==
    LET idx == str_find(s, <<" ", "/", " ">>)
    IN  IF idx > 0 THEN SubSeq(s, 1, idx) ELSE s

short_airport(s) == extract_city(s) \o <<" ", "(">> \o extract_iata(s) \o <<")">>

extract_airline(s) ==
    LET idx == str_find(s, <<" ", "(">>)
    IN  IF idx > 0 THEN SubSeq(s, 1, idx) ELSE s

trim_time(s) == IF Len(s) >= 5 THEN SubSeq(s, 1, 5) ELSE s

IsBlankRow_empty_only(row) == row = <<>>

\* line 59: not any(field.strip() for field in row)
IsBlankRow(row) == \A f \in 1..Len(row) : str_strip(row[f]) = <<>>

\* lines 78-91
FlightOf(row) ==
    [date |-> row[1], flight |-> row[2],
     from |-> short_airport(row[3]), to |-> short_airport(row[4]),
     fromIATA |-> extract_iata(row[3]), toIATA |-> extract_iata(row[4]),
     dep |-> trim_time(row[5]), arr |-> trim_time(row[6]), duration |-> trim_time(row[7]),
     airline |-> extract_airline(row[8]), aircraft |-> row[9], reg |-> row[10]]

\* lines 94-102: round(x, 4) of the coordinates of the codes the database knows
AirportsOf(codes) ==
    [code \in {c \in codes : c # <<>> /\ c \in DOMAIN AIRPORTS_DB} |->
        <<Round4(AIRPORTS_DB[code][1]), Round4(AIRPORTS_DB[code][2])>>]

MigrateRowPool == {R_blank, R_ws, R_hdr, R1, R_ten, R_short}

InitMigrate ==
    /\ csv \in {[lines |-> q, open |-> FALSE] : q \in RowSeqs(MigrateRowPool)}
    /\ csv0 = csv
    /\ template = <<>>
    /\ template0 = <<>>
    /\ template_coords = EmptyDict
    /\ pc = "read"
    /\ rows = <<>>
    /\ scan = 0
    /\ airports = EmptyDict
    /\ airlines = EmptyDict
    /\ aircraft = EmptyDict
    /\ NoPrompt
    /\ NoMigrate

\* lines 52-57
MigrateRead ==
    /\ pc = "read"
    /\ rows' = load_rows(csv)
    /\ scan' = 1
    /\ pc' = "filter"
    /\ UNCHANGED <<csv, template, csv0, template0, airports, airlines, aircraft,
                   template_coords, answers, pstate, val, line, nblank, nread, reg,
                   header, data_rows, flights, iata_codes, airports_json>>

\* one iteration of the for loop of line 58; header = <<>> stands for None
MigrateFilter ==
    /\ pc = "filter"
    /\ scan <= Len(rows)
    /\ IF IsBlankRow(rows[scan])
       THEN UNCHANGED <<header, data_rows>>
       ELSE IF header = <<>>
       THEN header' = <<rows[scan]>> /\ UNCHANGED data_rows
       ELSE data_rows' = Append(data_rows, rows[scan]) /\ UNCHANGED header
    /\ scan' = scan + 1
    /\ UNCHANGED <<csv, template, csv0, template0, pc, rows, airports, airlines,
                   aircraft, template_coords, answers, pstate, val, line, nblank,
                   nread, reg, flights, iata_codes, airports_json>>

\* the loop of line 58 ends; lines 66-67
MigrateFiltered ==
    /\ pc = "filter"
    /\ scan > Len(rows)
    /\ scan' = 1
    /\ pc' = "convert"
    /\ UNCHANGED <<csv, template, csv0, template0, rows, airports, airlines, aircraft,
                   template_coords, answers, pstate, val, line, nblank, nread, reg,
                   header, data_rows, flights, iata_codes, airports_json>>

\* one iteration of the for loop of line 69
MigrateConvert ==
    /\ pc = "convert"
    /\ scan <= Len(data_rows)
    /\ IF Len(data_rows[scan]) < 10
       THEN UNCHANGED <<flights, iata_codes>>
       ELSE /\ iata_codes' = iata_codes \cup {extract_iata(data_rows[scan][3]),
                                              extract_iata(data_rows[scan][4])}
            /\ flights' = Append(flights, FlightOf(data_rows[scan]))
    /\ scan' = scan + 1
    /\ UNCHANGED <<csv, template, csv0, template0, pc, rows, airports, airlines,
                   aircraft, template_coords, answers, pstate, val, line, nblank,
                   nread, reg, header, data_rows, airports_json>>

\* lines 94-110: flights and the airports dict are dumped to the two JSON files
MigrateWrite ==
    /\ pc = "convert"
    /\ scan > Len(data_rows)
    /\ airports_json' = AirportsOf(iata_codes)
    /\ pc' = "written"
    /\ UNCHANGED <<csv, template, csv0, template0, rows, airports, airlines, aircraft,
                   scan, template_coords, answers, pstate, val, line, nblank, nread,
                   reg, header, data_rows, flights, iata_codes>>

NextMigrate ==
    \/ MigrateRead
    \/ MigrateFilter
    \/ MigrateFiltered
    \/ MigrateConvert
    \/ MigrateWrite

SpecMigrate == InitMigrate /\ [][NextMigrate]_vars

\* row i of the CSV file has a field with a character that is not white space
NonBlankAt(i) ==
    \E f \in 1..Len(csv.lines[i]) : \E c \in 1..Len(csv.lines[i][f]) :
        csv.lines[i][f][c] \notin {" ", "\t"}

\* the rows that are to give a record: not blank, not the first non-blank row,
\* at least 10 fields
RecordRows ==
    {i \in 1..Len(csv.lines) :
        /\ NonBlankAt(i)
        /\ \E h \in 1..(i - 1) : NonBlankAt(h)
        /\ Len(csv.lines[i]) >= 10}

\* C10: the migration emits one record, in the order of the file, for every CSV row
\* that is not blank, is not the header (the first non-blank row) and has at least
\* 10 fields, and none for the other rows.
C10_MigrateOneRecordPerRow ==
    pc = "written" =>
        /\ Len(flights) = Cardinality(RecordRows)
        /\ \A i \in RecordRows :
              LET k == Cardinality({j \in RecordRows : j <= i})
              IN  /\ flights[k].date = csv.lines[i][1]
                  /\ flights[k].flight = csv.lines[i][2]
                  /\ flights[k].aircraft = csv.lines[i][9]
                  /\ flights[k].reg = csv.lines[i][10]
                  /\ Len(flights[k].fromIATA) \in {0, 3}

\* a white-space row, the header, a short row and a row of 10 fields: one record
C10_Witness ==
    /\ pc = "written"
    /\ csv.lines = <<R_ws, R_hdr, R_short, R_ten>>
    /\ Len(flights) = 1
    /\ flights[1].aircraft = D_A320

====
